---- MODULE Spec2Model ----
(***************************************************************************)
(* Model of gammafit/sherpamod.py: the grid merger _mergex and the three   *)
(* sherpa model adapters InverseCompton, Synchrotron and PionDecay, each   *)
(* with its guess and calc methods.                                        *)
(*                                                                         *)
(* Numbers.  A float is modelled as an exact rational <<n, d>> in lowest   *)
(* terms with d > 0; d = 0 holds the IEEE specials: <<1, 0>> is +inf,      *)
(* <<-1, 0>> is -inf and <<0, 0>> is nan.  Rounding is not modelled.  An   *)
(* energy parameter (ref, cutoff, the bounds) is a decimal <<m, e>>        *)
(* standing for m * 10^e, so that the rescaling by 1e12 is an operation on *)
(* the value.  None is the empty tuple.                                    *)
(*                                                                         *)
(* The decorator modelCacher1d and the classes Parameter and               *)
(* ArithmeticModel belong to sherpa.  calc stands for the decorated body,  *)
(* a Parameter for its name, value, bounds and frozen flag.                *)
(***************************************************************************)
EXTENDS Integers, Sequences, FiniteSets

VARIABLES
    xlo,    \* the caller's array of low bin edges (keV)
    xhi,    \* the caller's array of high bin edges (keV)
    dep,    \* the caller's array of observed flux per bin
    mx,     \* the latest direct application of _mergex: [flag, x]
    self,   \* the adapter instance: [kind, pars]
    last,   \* what the latest call did and gave back
    live    \* evaluator instances created by a calc and not released since

vars == <<xlo, xhi, dep, mx, self, last, live>>

-----------------------------------------------------------------------------
(* Bounds of the model *)

MaxN == 2        \* longest edge array handed to _mergex directly
MaxEdge == 4     \* largest edge value (keV) handed to _mergex directly
MaxBins == 2     \* most bins of a data set the adapter is fitted to
MaxKeV == 3      \* largest bin edge (keV) of such a data set
MaxDep == 2      \* largest observed flux in a bin

-----------------------------------------------------------------------------
(* Arithmetic on rationals *)

None == <<>>

Abs(a) == IF a < 0 THEN -a ELSE a

Sign(a) == IF a < 0 THEN -1 ELSE IF a > 0 THEN 1 ELSE 0

RECURSIVE Gcd(_, _)
Gcd(a, b) == IF b = 0 THEN a ELSE Gcd(b, a % b)

NaN == <<0, 0>>

Rat(n, d) ==
    IF d = 0 THEN <<Sign(n), 0>>
    ELSE LET g == Gcd(Abs(n), Abs(d))
         IN  <<Sign(d) * (n \div g), Abs(d) \div g>>

RInt(k) == <<k, 1>>

IsFinite(a) == a[2] # 0

IsNaN(a) == a = NaN

RNeg(a) == <<-a[1], a[2]>>

RAdd(a, b) ==
    IF IsFinite(a) /\ IsFinite(b)
        THEN LET g == Gcd(a[2], b[2])
             IN  Rat(a[1] * (b[2] \div g) + b[1] * (a[2] \div g), (a[2] \div g) * b[2])
    ELSE IF IsFinite(b) THEN a
    ELSE IF IsFinite(a) THEN b
    ELSE IF a = b THEN a ELSE NaN

RSub(a, b) == RAdd(a, RNeg(b))

RMul(a, b) ==
    IF IsFinite(a) /\ IsFinite(b)
        THEN LET g1 == Gcd(Abs(a[1]), b[2])
                 g2 == Gcd(Abs(b[1]), a[2])
                 h1 == IF g1 = 0 THEN 1 ELSE g1
                 h2 == IF g2 = 0 THEN 1 ELSE g2
             IN  Rat((a[1] \div h1) * (b[1] \div h2), (a[2] \div h2) * (b[2] \div h1))
    ELSE <<Sign(a[1]) * Sign(b[1]), 0>>

RInv(a) ==
    IF IsFinite(a) THEN Rat(a[2], a[1])
    ELSE IF IsNaN(a) THEN NaN ELSE RInt(0)

RDiv(a, b) ==
    IF IsFinite(a) /\ a[1] = 0 /\ IsFinite(b) /\ b[1] = 0 THEN NaN
    ELSE IF (~IsFinite(a)) /\ (~IsFinite(b)) THEN NaN
    ELSE IF IsFinite(b) /\ b[1] = 0 THEN <<Sign(a[1]), 0>>
    ELSE RMul(a, RInv(b))

\* a < b; every comparison with nan is false
RLt(a, b) ==
    IF IsNaN(a) \/ IsNaN(b) THEN FALSE
    ELSE IF IsFinite(a) /\ IsFinite(b) THEN a[1] * b[2] < b[1] * a[2]
    ELSE IF ~IsFinite(a) THEN a[1] < 0 /\ a # b
    ELSE b[1] > 0

RLe(a, b) == (~IsNaN(a)) /\ (~IsNaN(b)) /\ ~RLt(b, a)

-----------------------------------------------------------------------------
(* numpy operations on one-dimensional arrays, modelled as sequences *)

\* an array with every element computed, once
Arr(f) == SubSeq(f, 1, Len(f))

\* a + b, a - b, a * b and a * k, element by element
ArrAdd(a, b) == Arr([i \in 1..Len(a) |-> RAdd(a[i], b[i])])

ArrSub(a, b) == Arr([i \in 1..Len(a) |-> RSub(a[i], b[i])])

ArrMul(a, b) == Arr([i \in 1..Len(a) |-> RMul(a[i], b[i])])

ArrScale(a, k) == Arr([i \in 1..Len(a) |-> RMul(a[i], k)])

\* a[1:] and a[:-1]
Rest(a) == SubSeq(a, 2, Len(a))

Front(a) == SubSeq(a, 1, Len(a) - 1)

RECURSIVE Insert(_, _)
Insert(v, s) ==
    IF s = <<>> THEN <<v>>
    ELSE IF RLe(v, Head(s)) THEN <<v>> \o s
    ELSE <<Head(s)>> \o Insert(v, Tail(s))

\* ndarray.sort(): ascending order
RECURSIVE Sort(_)
Sort(s) == IF s = <<>> THEN <<>> ELSE Insert(Head(s), Sort(Tail(s)))

RECURSIVE Sum(_)
Sum(s) == IF s = <<>> THEN RInt(0) ELSE RAdd(Head(s), Sum(Tail(s)))

\* np.trapz(y, x): sum of diff(x) * (y[1:] + y[:-1]) / 2; 0.0 for one point
Trapz(y, x) ==
    Sum(ArrScale(ArrMul(ArrSub(Rest(x), Front(x)), ArrAdd(Rest(y), Front(y))), Rat(1, 2)))

-----------------------------------------------------------------------------
(* _mergex *)

\* a slip in the last assignment: the first high edge instead of the last
mergex_firsthi(lo, hi, midpoints) ==
    LET N == Len(lo)
        x == Arr([i \in 1..(N + 1) |-> IF i <= N THEN lo[i] ELSE hi[1]])
    IN  IF midpoints
            THEN Sort(x \o ArrScale(ArrAdd(lo, hi), Rat(1, 2)))
            ELSE x

\* the midpoints appended but the sort left out
mergex_unsorted(lo, hi, midpoints) ==
    LET N == Len(lo)
        x == Arr([i \in 1..(N + 1) |-> IF i <= N THEN lo[i] ELSE hi[Len(hi)]])
    IN  IF midpoints
            THEN x \o ArrScale(ArrAdd(lo, hi), Rat(1, 2))
            ELSE x

_mergex(lo, hi, midpoints) ==
    LET N == Len(lo)
        x == Arr([i \in 1..(N + 1) |-> IF i <= N THEN lo[i] ELSE hi[Len(hi)]])
    IN  IF midpoints
            THEN Sort(x \o ArrScale(ArrAdd(lo, hi), Rat(1, 2)))
            ELSE x

-----------------------------------------------------------------------------
(* Decimal energies and the sherpa Parameter *)

\* m * 10^e
Dec(m, e) == <<m, e>>

IsZero(c) == c[1] = 0

\* c * 1e12
E12(c) == <<c[1], c[2] + 12>>

\* sherpa.models.parameter.hugeval, the default of max (and, negated, of min)
hugeval == Dec(34028235, 31)

Parameter(modelname, name, val, min, max, frozen) ==
    [modelname |-> modelname, name |-> name, val |-> val,
     min |-> min, max |-> max, frozen |-> frozen]

\* [p.val for p in self.pars]
ParVals(obj) == Arr([i \in 1..Len(obj.pars) |-> obj.pars[i].val])

\* position of ampl in pars
AmplAt == 3

\* Parameter.set(val): the value alone is assigned
ParSet(obj, i, val) ==
    [obj EXCEPT !.pars = [obj.pars EXCEPT ![i] = [obj.pars[i] EXCEPT !.val = val]]]

-----------------------------------------------------------------------------
(* The one-zone evaluators ElectronOZM and ProtonOZM of gammafit.onezone,    *)
(* which sherpamod.py imports.  Their code is not part of the file modelled; *)
(* they are stood in for by a deterministic function of the constructor's    *)
(* arguments: a spectrum aligned to the grid, linear in the amplitude, and    *)
(* two ways to fail.                                                         *)

\* the index at which the spectrum computation does not converge
DivergentIndex == 9

\* the constructor rejects a cutoff energy of zero
OZMInvalid(cfg) == cfg.cutoff # None /\ IsZero(cfg.cutoff)

\* calc_ic, calc_sy and calc_outspec fail at the divergent index
OZMDiverges(cfg) == cfg.index = RInt(DivergentIndex)

OZMWeight(cfg, process) ==
    (CASE process = "specic" -> 1 [] process = "specsy" -> 2 [] process = "specpp" -> 3)
    + (IF cfg.cutoff = None THEN 1 ELSE 0)

\* specic, specsy, specpp: one flux density per grid point
OZMSpectrum(cfg, process) ==
    Arr([i \in 1..Len(cfg.outspec) |->
            RDiv(RMul(cfg.ampl, RInt(OZMWeight(cfg, process))), cfg.outspec[i])])

-----------------------------------------------------------------------------
(* The body shared by the three calc methods, from the constructed           *)
(* configuration on: construct, compute, extract, del, integrate, print,     *)
(* return.  An outcome records what the call did:                            *)
(*   status   "returned" or "raised"                                         *)
(*   value    the photons array returned (<<>> when raised)                  *)
(*   model    the flux curve taken from the evaluator (<<>> when raised)     *)
(*   exc      the failure that left the call ("" when returned)              *)
(*   events   the statements run, in order                                   *)
(*   built    the configurations handed to the evaluator's constructor       *)
(*   held     evaluator instances still bound to ozm when the call ended     *)
(*   stdout   the diagnostic lines written                                   *)

\* photons = (outspec[1:]-outspec[:-1]) * ((model[1:]+model[:-1])/2.), cumulated
PhotonsPerBin_cumulative(outspec, model) ==
    LET per == ArrMul(ArrSub(Rest(outspec), Front(outspec)),
                      ArrScale(ArrAdd(Rest(model), Front(model)), Rat(1, 2)))
    IN  Arr([i \in 1..Len(per) |-> Sum(SubSeq(per, 1, i))])

\* photons = (outspec[1:]-outspec[:-1]) * ((model[1:]+model[:-1])/2.)
PhotonsPerBin(outspec, model) ==
    ArrMul(ArrSub(Rest(outspec), Front(outspec)),
           ArrScale(ArrAdd(Rest(model), Front(model)), Rat(1, 2)))

RECURSIVE ArrMin(_)
ArrMin(a) ==
    IF Len(a) = 1 THEN a[1]
    ELSE LET m == ArrMin(Tail(a)) IN IF RLt(a[1], m) THEN a[1] ELSE m

RECURSIVE ArrMax(_)
ArrMax(a) ==
    IF Len(a) = 1 THEN a[1]
    ELSE LET m == ArrMax(Tail(a)) IN IF RLt(m, a[1]) THEN a[1] ELSE m

\* print outspec.min(), outspec.max(), len(outspec), p,
\*       np.trapz((outspec*1.60217656e-12)*model, outspec)
\* the energy flux is kept as the integral in eV and the factor it is scaled by
Diagnostic(outspec, p, model) ==
    [min |-> ArrMin(outspec), max |-> ArrMax(outspec), len |-> Len(outspec), p |-> p,
     flux |-> [eV |-> Trapz(ArrMul(outspec, model), outspec), erg_per_eV |-> Dec(160217656, -20)]]

\* a failure of the evaluator caught, and zeros returned in place of the photons
Evaluate_swallow(cfg, process, p) ==
    IF OZMInvalid(cfg) \/ OZMDiverges(cfg)
        THEN [status |-> "returned",
              value |-> Arr([i \in 1..(Len(cfg.outspec) - 1) |-> RInt(0)]),
              model |-> <<>>, exc |-> "",
              events |-> <<"construct", "except", "return">>,
              built |-> <<cfg>>, held |-> 0, stdout |-> <<>>]
        ELSE LET model == OZMSpectrum(cfg, process)
             IN  [status |-> "returned",
                  value |-> PhotonsPerBin(cfg.outspec, model),
                  model |-> model, exc |-> "",
                  events |-> <<"construct", "compute", "extract", "del",
                               "integrate", "print", "return">>,
                  built |-> <<cfg>>, held |-> 0,
                  stdout |-> <<Diagnostic(cfg.outspec, p, model)>>]

Evaluate(cfg, process, p) ==
    IF OZMInvalid(cfg)
        THEN [status |-> "raised", value |-> <<>>, model |-> <<>>, exc |-> "OZM.__init__",
              events |-> <<"construct", "raise">>,
              built |-> <<cfg>>, held |-> 0, stdout |-> <<>>]
    ELSE IF OZMDiverges(cfg)
        THEN [status |-> "raised", value |-> <<>>, model |-> <<>>, exc |-> "OZM.calc",
              events |-> <<"construct", "compute", "raise">>,
              built |-> <<cfg>>, held |-> 1, stdout |-> <<>>]
    ELSE LET model == OZMSpectrum(cfg, process)
         IN  [status |-> "returned",
              value |-> PhotonsPerBin(cfg.outspec, model),
              model |-> model, exc |-> "",
              events |-> <<"construct", "compute", "extract", "del",
                           "integrate", "print", "return">>,
              built |-> <<cfg>>, held |-> 0,
              stdout |-> <<Diagnostic(cfg.outspec, p, model)>>]

-----------------------------------------------------------------------------
(* The three adapter classes *)

InverseCompton_init(name) ==
    [kind |-> "InverseCompton",
     pars |-> << Parameter(name, "index", RInt(2), Dec(-10, 0), Dec(10, 0), FALSE),
                 Parameter(name, "ref", Dec(20, 0), Dec(0, 0), hugeval, TRUE),
                 Parameter(name, "ampl", RInt(1), Dec(0, 0), hugeval, FALSE),
                 Parameter(name, "cutoff", Dec(1, 15), Dec(0, 0), hugeval, TRUE),
                 Parameter(name, "beta", RInt(1), Dec(0, 0), Dec(10, 0), TRUE) >>,
     use_caching |-> TRUE, cache |-> 10]

Synchrotron_init(name) ==
    [kind |-> "Synchrotron",
     pars |-> << Parameter(name, "index", RInt(2), Dec(-10, 0), Dec(10, 0), FALSE),
                 Parameter(name, "ref", Dec(20, 0), Dec(0, 0), hugeval, TRUE),
                 Parameter(name, "ampl", RInt(1), Dec(0, 0), hugeval, FALSE),
                 Parameter(name, "cutoff", Dec(1, 15), Dec(0, 0), hugeval, TRUE),
                 Parameter(name, "beta", RInt(1), Dec(0, 0), Dec(10, 0), TRUE),
                 Parameter(name, "B", RInt(1), Dec(0, 0), Dec(10, 0), TRUE) >>,
     use_caching |-> TRUE, cache |-> 10]

PionDecay_init(name) ==
    [kind |-> "PionDecay",
     pars |-> << Parameter(name, "index", Rat(21, 10), Dec(-10, 0), Dec(10, 0), FALSE),
                 Parameter(name, "ref", Dec(60, 0), Dec(0, 0), hugeval, TRUE),
                 Parameter(name, "ampl", RInt(100), Dec(0, 0), hugeval, FALSE),
                 Parameter(name, "cutoff", Dec(0, 0), Dec(0, 0), hugeval, TRUE),
                 Parameter(name, "beta", RInt(1), Dec(0, 0), Dec(10, 0), TRUE) >>,
     use_caching |-> TRUE, cache |-> 10]

\* outspec = _mergex(xlo,xhi)*1e3
Outspec(lo, hi) == ArrScale(_mergex(lo, hi, FALSE), RInt(1000))

\* the values calc works with are those of its argument p
Unpack_stored(obj, p) == ParVals(obj)

\* index,ref,ampl,cutoff,beta = p
Unpack(obj, p) == p

InverseCompton_calc(obj, p, lo, hi) ==
    LET q == Unpack(obj, p)
        index == q[1]  ref == q[2]  ampl == q[3]  cutoff == q[4]  beta == q[5]
        outspec == Outspec(lo, hi)
        cfg == [class |-> "ElectronOZM", outspec |-> outspec, ampl |-> ampl,
                index |-> index, norm_energy |-> E12(ref), cutoff |-> E12(cutoff),
                beta |-> beta, B |-> None, seedspec |-> <<"CMB">>, nolog |-> TRUE,
                gmin |-> Dec(1, 5), gmax |-> Dec(1, 10), ngamd |-> Dec(30, 0), Etrans |-> None]
    IN  Evaluate(cfg, "specic", p)

Synchrotron_calc(obj, p, lo, hi) ==
    LET q == Unpack(obj, p)
        index == q[1]  ref == q[2]  ampl == q[3]  cutoff == q[4]  beta == q[5]  B == q[6]
        outspec == Outspec(lo, hi)
        cfg == [class |-> "ElectronOZM", outspec |-> outspec, ampl |-> ampl,
                index |-> index, norm_energy |-> E12(ref), cutoff |-> E12(cutoff),
                beta |-> beta, B |-> B, seedspec |-> <<"CMB">>, nolog |-> TRUE,
                gmin |-> Dec(1, 5), gmax |-> Dec(1, 10), ngamd |-> Dec(30, 0), Etrans |-> None]
    IN  Evaluate(cfg, "specsy", p)

\* the sentinel test left out: the cutoff is always rescaled
PionCutoff_nosentinel(cutoff) == E12(cutoff)

\* if cutoff == 0: cutoff=None   else: cutoff*=1e12
PionCutoff(cutoff) == IF IsZero(cutoff) THEN None ELSE E12(cutoff)

PionDecay_calc(obj, p, lo, hi) ==
    LET q == Unpack(obj, p)
        index == q[1]  ref == q[2]  ampl == q[3]  cutoff == q[4]  beta == q[5]
        outspec == Outspec(lo, hi)
        cfg == [class |-> "ProtonOZM", outspec |-> outspec, ampl |-> ampl,
                index |-> index, norm_energy |-> E12(ref), cutoff |-> PionCutoff(cutoff),
                beta |-> beta, B |-> None, seedspec |-> <<"CMB">>, nolog |-> TRUE,
                gmin |-> None, gmax |-> None, ngamd |-> None, Etrans |-> Dec(1, 10)]
    IN  Evaluate(cfg, "specpp", p)

\* self.calc: the method of the instance's class
calc(obj, p, lo, hi) ==
    CASE obj.kind = "InverseCompton" -> InverseCompton_calc(obj, p, lo, hi)
      [] obj.kind = "Synchrotron" -> Synchrotron_calc(obj, p, lo, hi)
      [] obj.kind = "PionDecay" -> PionDecay_calc(obj, p, lo, hi)

\* the rescaled cutoff written back to the instance together with the amplitude
SetAmpl_and_cutoff(obj, val) ==
    LET o == ParSet(obj, AmplAt, val) IN ParSet(o, 4, E12(o.pars[4].val))

\* self.ampl.set(...)
SetAmpl(obj, val) == ParSet(obj, AmplAt, val)

\* guess, the same text in the three classes.  The result records the call:
\*   status, exc   how the call ended      inner     the outcome of its calc
\*   obj           the instance afterwards modflux, obsflux   the two integrals
guess(obj, d, lo, hi) ==
    LET model == calc(obj, ParVals(obj), lo, hi)
    IN  IF model.status = "raised"
            THEN [status |-> "raised", exc |-> model.exc, inner |-> model, obj |-> obj,
                  modflux |-> NaN, obsflux |-> NaN]
            ELSE LET modflux == Trapz(model.value, lo)
                     obsflux == Trapz(ArrMul(d, ArrSub(hi, lo)), lo)
                     new == RDiv(RMul(obj.pars[AmplAt].val, obsflux), modflux)
                 IN  [status |-> "returned", exc |-> "", inner |-> model,
                      obj |-> SetAmpl(obj, new),
                      modflux |-> modflux, obsflux |-> obsflux]

-----------------------------------------------------------------------------
(* The fitting framework: the data it holds and the calls it makes *)

IntArrays(n, top) == {Arr([i \in 1..n |-> RInt(f[i])]) : f \in [1..n -> 1..top]}

\* observed fluxes: one array of n positive values for each k
DepArrays(n) == {Arr([i \in 1..n |-> RInt(((i * k) % MaxDep) + 1)]) : k \in 1..MaxDep}

\* bins lo[i] < hi[i] <= lo[i+1]: ascending, not overlapping, gaps allowed
IsBinning(lo, hi) ==
    /\ \A i \in 1..Len(lo) : RLt(lo[i], hi[i])
    /\ \A i \in 1..(Len(lo) - 1) : RLe(hi[i], lo[i + 1])

\* bins with xlo[n] = xhi[n-1], as the docstring of _mergex assumes
IsContiguous(lo, hi) == \A i \in 2..Len(lo) : lo[i] = hi[i - 1]

IndexVals(obj) ==
    {(CASE obj.kind = "PionDecay" -> Rat(21, 10) [] OTHER -> RInt(2)), RInt(DivergentIndex)}

CutoffVals == {Dec(0, 0), Dec(1, 15)}

\* the parameter vectors the framework hands to calc: the stored values,
\* with any index, cutoff and amplitude the fit may try
PVecs(obj) ==
    {[ParVals(obj) EXCEPT ![1] = i, ![AmplAt] = a, ![4] = c] :
        i \in IndexVals(obj), a \in {RInt(1), obj.pars[AmplAt].val}, c \in CutoffVals}

\* the record of a call: the operation, its arguments p, lo, hi (and dep),
\* the outcome of the calc it ran (out) and of the guess (g), the instance
\* before the call, the most evaluator instances alive at once during it,
\* and whether the call before it ran calc on the same p, lo and hi
Fresh(obj) ==
    [op |-> "new", p |-> <<>>, lo |-> <<>>, hi |-> <<>>, out |-> <<>>, g |-> <<>>,
     before |-> obj, dep |-> <<>>, peak |-> 0, again |-> FALSE]

Again(p, lo, hi) == last.out # <<>> /\ last.p = p /\ last.lo = lo /\ last.hi = hi

Ran(out, what) == what \in {out.events[i] : i \in 1..Len(out.events)}

InitData ==
    \E n \in 1..MaxBins :
        /\ xlo \in IntArrays(n, MaxKeV)
        /\ xhi \in IntArrays(n, MaxKeV)
        /\ IsBinning(xlo, xhi)
        /\ dep \in DepArrays(n)

Init ==
    /\ InitData
    /\ mx = <<>>
    /\ self \in {InverseCompton_init("IC"), Synchrotron_init("IC"), PionDecay_init("pp")}
    /\ last = Fresh(self)
    /\ live = 0

\* an evaluator left bound when its calc raised stays alive with the frame,
\* which the traceback of the failure refers to
LiveAfter(out) == IF out.status = "raised" THEN out.held ELSE live

\* the framework evaluates the model: self.calc(p, xlo, xhi)
Calc ==
    \E p \in PVecs(self) :
        \E out \in {calc(self, p, xlo, xhi)} :
            /\ last' = [op |-> "calc", p |-> p, lo |-> xlo, hi |-> xhi, out |-> <<out>>,
                        g |-> <<>>, before |-> self, dep |-> dep,
                        peak |-> live + (IF Ran(out, "compute") THEN 1 ELSE 0),
                        again |-> Again(p, xlo, xhi)]
            /\ live' = LiveAfter(out)
            /\ UNCHANGED <<xlo, xhi, dep, mx, self>>

\* the framework seeds the amplitude: self.guess(dep, xlo, xhi)
Guess ==
    \E g \in {guess(self, dep, xlo, xhi)} : \E out \in {g.inner} :
        /\ self' = g.obj
        /\ last' = [op |-> "guess", p |-> ParVals(self), lo |-> xlo, hi |-> xhi,
                    out |-> <<out>>, g |-> <<g>>, before |-> self, dep |-> dep,
                    peak |-> live + (IF Ran(out, "compute") THEN 1 ELSE 0),
                    again |-> Again(ParVals(self), xlo, xhi)]
        /\ live' = LiveAfter(out)
        /\ UNCHANGED <<xlo, xhi, dep, mx>>

\* the framework (the optimiser, the user) gives index or cutoff a new value
SetPar ==
    \E i \in {1, 4} :
        \E v \in (IF i = 1 THEN IndexVals(self) ELSE CutoffVals) :
            /\ self.pars[i].val # v
            /\ self' = ParSet(self, i, v)
            /\ last' = [Fresh(self) EXCEPT !.op = "set"]
            /\ UNCHANGED <<xlo, xhi, dep, mx, live>>

\* the interpreter drops the traceback of a past failure, and with it the
\* frame and the evaluator the frame still refers to
TracebackCleared ==
    /\ live > 0
    /\ live' = 0
    /\ UNCHANGED <<xlo, xhi, dep, mx, self, last>>

Next == Calc \/ Guess \/ SetPar \/ TracebackCleared

Spec == Init /\ [][Next]_vars

-----------------------------------------------------------------------------
(* _mergex applied directly to arbitrary pairs of arrays of one length *)

MergeInit ==
    /\ \E n \in 1..MaxN :
          /\ xlo \in IntArrays(n, MaxEdge)
          /\ xhi \in IntArrays(n, MaxEdge)
    /\ dep = <<>>
    /\ mx = <<>>
    /\ self = InverseCompton_init("IC")
    /\ last = Fresh(self)
    /\ live = 0

Merge ==
    \E flag \in BOOLEAN :
        /\ mx' = <<[midpoints |-> flag, lo |-> xlo, hi |-> xhi, x |-> _mergex(xlo, xhi, flag)]>>
        /\ UNCHANGED <<xlo, xhi, dep, self, last, live>>

MergeNext == Merge

MergeSpec == MergeInit /\ [][MergeNext]_vars

-----------------------------------------------------------------------------
(* Properties of _mergex, checked under MergeSpec *)

Count(s, v) == Cardinality({i \in 1..Len(s) : s[i] = v})

Ascending(s) == \A i \in 1..(Len(s) - 1) : RLe(s[i], s[i + 1])

Increasing(s) == \A i \in 1..(Len(s) - 1) : RLt(s[i], s[i + 1])

Half(a) == Rat(a[1], 2 * a[2])

\* C1: without midpoints, for N >= 1 bins, _mergex returns N+1 points: the N
\* low edges in order, then the last high edge; no other element of hi has
\* any influence on the result.
C1_MergeNoMidpoints ==
    \A m \in {mx[i] : i \in 1..Len(mx)} :
        (~m.midpoints) =>
            LET N == Len(m.lo) IN
            /\ Len(m.x) = N + 1
            /\ \A i \in 1..N : m.x[i] = m.lo[i]
            /\ m.x[N + 1] = m.hi[N]
            /\ \A h \in IntArrays(N, MaxEdge) :
                  h[N] = m.hi[N] => _mergex(m.lo, h, FALSE) = m.x

C1_Witness ==
    /\ mx # <<>>
    /\ ~mx[1].midpoints
    /\ Len(mx[1].lo) >= 2
    /\ mx[1].hi[1] # mx[1].hi[Len(mx[1].hi)]
    /\ mx[1].x[Len(mx[1].x)] = mx[1].hi[Len(mx[1].hi)]

\* C2: with midpoints, for N >= 1 bins, _mergex returns 2N+1 points in ascending
\* order which are, as a multiset, the N+1 base points (lo, then the last hi)
\* together with the N midpoints (lo[i]+hi[i])/2.
C2_MergeWithMidpoints ==
    \A m \in {mx[i] : i \in 1..Len(mx)} :
        m.midpoints =>
            LET N == Len(m.lo)
                base == m.lo \o <<m.hi[N]>>
                mid == [i \in 1..N |-> Half(RAdd(m.lo[i], m.hi[i]))]
                all == base \o mid
            IN  /\ Len(m.x) = 2 * N + 1
                /\ Ascending(m.x)
                /\ \A i \in 1..Len(all) : Count(m.x, all[i]) = Count(all, all[i])
                /\ \A i \in 1..Len(m.x) : Count(all, m.x[i]) = Count(m.x, m.x[i])

C2_Witness ==
    /\ mx # <<>>
    /\ mx[1].midpoints
    /\ Len(mx[1].lo) >= 2
    /\ Len(mx[1].x) = 2 * Len(mx[1].lo) + 1
    /\ \E i \in 1..Len(mx[1].lo) : mx[1].x[i] # mx[1].lo[i]

StrictlyOrdered(s) == \A i \in 1..(Len(s) - 1) : s[i][1] * s[i + 1][2] < s[i + 1][1] * s[i][2]

\* C9, as claimed: for ordered lo and hi of one size (here even with every
\* low edge below its high edge) and either flag, the sequence _mergex gives
\* is increasing, and so is the eV grid, the merged grid times 1000.
C9_MergedAlwaysIncreasing ==
    \A m \in {mx[i] : i \in 1..Len(mx)} :
        (/\ StrictlyOrdered(m.lo)
         /\ StrictlyOrdered(m.hi)
         /\ \A i \in 1..Len(m.lo) : RLt(m.lo[i], m.hi[i]))
        => /\ Increasing(m.x)
           /\ Increasing(ArrScale(m.x, RInt(1000)))

\* C9, amended: when the bins are ascending and do not overlap,
\* lo[i] < hi[i] <= lo[i+1], the sequence _mergex gives is increasing for
\* either flag, and so is the eV grid, the merged grid times 1000.
C9_MergedIncreasingForBins ==
    \A m \in {mx[i] : i \in 1..Len(mx)} :
        (/\ \A i \in 1..Len(m.lo) : RLt(m.lo[i], m.hi[i])
         /\ \A i \in 1..(Len(m.lo) - 1) : RLe(m.hi[i], m.lo[i + 1]))
        => /\ Increasing(m.x)
           /\ Increasing(ArrScale(m.x, RInt(1000)))
           /\ (~m.midpoints) => Increasing(Outspec(m.lo, m.hi))

C9_Witness ==
    /\ mx # <<>>
    /\ mx[1].midpoints
    /\ Len(mx[1].lo) >= 2
    /\ IsBinning(mx[1].lo, mx[1].hi)
    /\ IsContiguous(mx[1].lo, mx[1].hi)
    /\ Increasing(mx[1].x)

-----------------------------------------------------------------------------
(* Properties of the adapters, checked under Spec *)

IsCall == last.op \in {"calc", "guess"}

Positive(a) == \A i \in 1..Len(a) : RLt(RInt(0), a[i])

Occurrences(events, what) == Cardinality({i \in 1..Len(events) : events[i] = what})

\* C3: in all three variants, for N bins calc returns an array of length N in
\* which element i is (g[i+1]-g[i]) * (m[i]+m[i+1])/2, g the merged grid of
\* length N+1 handed to the evaluator and m the flux curve it gave back: each
\* bin from its own two grid points, not cumulative.
C3_PerBinIntegration ==
    (IsCall /\ last.out[1].status = "returned") =>
        LET N == Len(last.lo)
            g == last.out[1].built[1].outspec
            m == last.out[1].model
            v == last.out[1].value
        IN  /\ Len(g) = N + 1
            /\ Len(m) = N + 1
            /\ Len(v) = N
            /\ \A i \in 1..N :
                  v[i] = Half(RMul(RSub(g[i + 1], g[i]), RAdd(m[i], m[i + 1])))

C3_Witness ==
    /\ last.op = "calc"
    /\ last.out[1].status = "returned"
    /\ Len(last.out[1].value) >= 2
    /\ last.out[1].value[1] # last.out[1].value[2]
    /\ Positive(last.out[1].value)

\* C4: in PionDecay.calc a cutoff of exactly 0 has the evaluator constructed
\* with no cutoff (None), every other cutoff c with c*1e12; the evaluator is
\* never handed a cutoff of 0.
C4_PionCutoffSentinel ==
    (IsCall /\ self.kind = "PionDecay") =>
        \A i \in 1..Len(last.out[1].built) :
            LET c == last.p[4]
                handed == last.out[1].built[i].cutoff
            IN  /\ (c[1] = 0) => handed = None
                /\ (c[1] # 0) => handed = <<c[1], c[2] + 12>>
                /\ handed = None \/ handed[1] # 0

C4_Witness ==
    /\ IsCall
    /\ self.kind = "PionDecay"
    /\ last.p[4][1] = 0
    /\ Len(last.out[1].built) = 1
    /\ last.out[1].built[1].cutoff = None
    /\ last.out[1].status = "returned"

\* C5: for positive observed fluxes and a positive model array over N >= 1
\* bins, after guess the amplitude is amplitude_old * (integral of observed)
\* / (integral of the model), the integrals being the trapezoidal ones over
\* the low edges, and the model integral in the denominator is not zero.
C5_GuessRescalesAmplitude ==
    (/\ last.op = "guess"
     /\ last.out[1].status = "returned"
     /\ Len(last.lo) >= 1
     /\ Positive(last.dep)
     /\ Positive(last.out[1].value))
    => LET old == last.before.pars[AmplAt].val
           modflux == Trapz(last.out[1].value, last.lo)
           obsflux == Trapz(ArrMul(last.dep, ArrSub(last.hi, last.lo)), last.lo)
       IN  /\ IsFinite(modflux)
           /\ modflux[1] # 0
           /\ IsFinite(self.pars[AmplAt].val)
           /\ self.pars[AmplAt].val = RMul(RMul(old, obsflux), RInv(modflux))

InOrder(events) ==
    events = <<"construct", "compute", "extract", "del", "integrate", "print", "return">>

\* C7: every calc that returns has acquired the evaluator once, computed,
\* extracted the curve and released the instance before integrating, printing
\* and returning; across any sequence of calls at most one evaluator instance
\* is alive at any moment, and none once a calc has returned.
C7_EvaluatorLifetime ==
    IsCall =>
        /\ (last.out[1].status = "returned") => InOrder(last.out[1].events)
        /\ last.peak <= 1
        /\ (last.out[1].status = "returned") => live = 0

\* C8: when the evaluator fails in its constructor or in the computation, that
\* failure reaches the caller of calc (and of guess, when guess made the
\* call); the evaluator is constructed and invoked at most once, no array is
\* returned and no diagnostic line is written.
C8_FailurePropagates ==
    IsCall =>
        LET out == last.out[1]
            cfg == out.built[1]
            invalid == cfg.cutoff # None /\ cfg.cutoff[1] = 0
            diverges == cfg.index = <<DivergentIndex, 1>>
        IN  (invalid \/ diverges) =>
                /\ out.status = "raised"
                /\ out.exc = (IF invalid THEN "OZM.__init__" ELSE "OZM.calc")
                /\ Len(out.built) = 1
                /\ Occurrences(out.events, "construct") = 1
                /\ Occurrences(out.events, "compute") <= 1
                /\ Occurrences(out.events, "except") = 0
                /\ Occurrences(out.events, "print") = 0
                /\ Occurrences(out.events, "return") = 0
                /\ out.value = <<>>
                /\ out.stdout = <<>>
                /\ (last.op = "guess") =>
                      /\ last.g[1].status = "raised"
                      /\ last.g[1].exc = out.exc

C8_Witness ==
    /\ last.op = "guess"
    /\ last.g[1].status = "raised"
    /\ last.g[1].exc = "OZM.calc"
    /\ last.out[1].events = <<"construct", "compute", "raise">>

\* C10: guess changes the value of the amplitude and nothing else: the values
\* of index, ref, cutoff, beta (and B), every parameter's bounds and frozen
\* flag, and the arrays observed, lo and hi are as before the call, in
\* PionDecay too; and when the calc inside guess fails, the amplitude keeps
\* its value as well.
C10_GuessFrame ==
    (last.op = "guess") =>
        /\ self.kind = last.before.kind
        /\ self.use_caching = last.before.use_caching
        /\ self.cache = last.before.cache
        /\ Len(self.pars) = Len(last.before.pars)
        /\ \A i \in 1..Len(self.pars) :
              /\ self.pars[i].modelname = last.before.pars[i].modelname
              /\ self.pars[i].name = last.before.pars[i].name
              /\ self.pars[i].min = last.before.pars[i].min
              /\ self.pars[i].max = last.before.pars[i].max
              /\ self.pars[i].frozen = last.before.pars[i].frozen
              /\ (i # AmplAt) => self.pars[i].val = last.before.pars[i].val
        /\ xlo = last.lo
        /\ xhi = last.hi
        /\ dep = last.dep
        /\ (last.g[1].status = "raised") => self = last.before

C10_Witness ==
    /\ last.op = "guess"
    /\ self.kind = "PionDecay"
    /\ last.g[1].status = "returned"
    /\ self.pars[4].val[1] # 0
    /\ self.pars[4].val = last.before.pars[4].val
    /\ self.pars[AmplAt].val # last.before.pars[AmplAt].val

====
